---- MODULE Spec2Model ----
(***************************************************************************)
(* The enterprise override layer: the frontend settings store              *)
(* (packages/frontend/editor-ui/src/stores/settings.store.ts) and the      *)
(* backend LicenseService (src/unnamed/part_000).                          *)
(*                                                                         *)
(* JavaScript objects are functions from property names to values; a       *)
(* property an object does not have is a name outside its DOMAIN.          *)
(***************************************************************************)
EXTENDS Integers, Sequences, FiniteSets, TLC

\* Bounds of the model.
MaxCalls == 2
MaxServiceCalls == 2
MaxInstances == 2
MaxCount == 1
MaxUsers == 2

VARIABLES
    \* ---- settings.store.ts: the refs of the store
    initialized,
    settings,
    userManagement,
    templatesEndpointHealthy,
    api,
    mfa,
    folders,
    saveDataErrorExecution,
    saveDataSuccessExecution,
    saveManualExecutions,
    saveDataProgressExecution,
    \* ---- settings.store.ts: what the store does to its collaborators
    calls,            \* the async calls made on the store, in call order
    fetches,          \* settingsApi.getSettings requests issued
    toasts,           \* showToast notifications shown
    sessionsStarted,  \* eventsApi.sessionStarted requests issued
    versionCli,       \* useRootStore().versionCli
    rootStore,        \* the other fields of useRootStore() that getSettings sets
    allUsers,         \* useUsersStore().allUsers
    \* ---- LicenseService: the shared collaborators and the service's calls
    license,          \* the shared License object: what each method returns
    licenseState,     \* the shared LicenseState object
    instances,        \* LicenseService objects constructed so far
    trace,            \* log entries, emitted events, repository queries, returns
    serviceCalls,     \* the calls made on the service, in call order, with their inputs
    licenseData       \* the getLicenseData call in flight or settled

storeVars == <<initialized, settings, userManagement, templatesEndpointHealthy, api,
               mfa, folders, saveDataErrorExecution, saveDataSuccessExecution,
               saveManualExecutions, saveDataProgressExecution, calls, fetches,
               toasts, sessionsStarted, versionCli, rootStore, allUsers>>

serviceVars == <<license, licenseState, instances, trace, serviceCalls, licenseData>>

vars == <<storeVars, serviceVars>>

-----------------------------------------------------------------------------
(* JavaScript object helpers *)

\* {}
EmptyObject == [k \in {} |-> TRUE]

\* { ...o, ...patch }
Spread(o, patch) ==
    [k \in (DOMAIN o) \cup (DOMAIN patch) |->
        IF k \in DOMAIN patch THEN patch[k] ELSE o[k]]

\* o[k] || {}
OrEmpty(o, k) == IF k \in DOMAIN o THEN o[k] ELSE EmptyObject

\* !!o[k] for a boolean or missing property
ToBoolean(o, k) == IF k \in DOMAIN o THEN o[k] ELSE FALSE

\* Number.MAX_SAFE_INTEGER = 2^53 - 1, beyond TLC's 32-bit integers:
\* limits are kept as two limbs <<hi, lo>> of value hi * 2^24 + lo.
MAX_SAFE_INTEGER == <<536870911, 16777215>>

\* a small limit n as limbs
Limit(n) == <<0, n>>

-----------------------------------------------------------------------------
(* settings.store.ts: the forced-constant computed values *)

planName == "Enterprise"

isEnterpriseFeatureEnabled(feature) == TRUE

isWorkerViewAvailable == TRUE

isCommunityPlan == FALSE

isVariablesEnabled == TRUE
canCreateVariables == TRUE
isAdvancedPermissionsEnabled == TRUE
isSourceControlEnabled == TRUE
isAuditLogsEnabled == TRUE
isSsoEnabled == TRUE
isLogStreamingEnabled == TRUE
isWorkflowHistoryEnabled == TRUE
isDebugInEditorEnabled == TRUE
isBinaryDataS3Enabled == TRUE
isMultipleMainInstancesEnabled == TRUE
isAdvancedExecutionFiltersEnabled == TRUE
\* isLdapEnabled, were it computed from the payload
isLdapEnabledFromPayload ==
    IF "enterprise" \in DOMAIN settings /\ "ldap" \in DOMAIN settings.enterprise
    THEN settings.enterprise.ldap
    ELSE FALSE
isLdapEnabled == TRUE
isSamlEnabled == TRUE
isExternalSecretsEnabled == TRUE
isWorkflowSharingEnabled == TRUE
isProjectsEnabled == TRUE
isRbacEnabled == TRUE

licenseInformation ==
    [planName |-> "Enterprise",
     isValidLicense |-> TRUE,
     validConsumerId |-> "enterprise-consumer",
     features |->
        [variables |-> TRUE,
         advancedPermissions |-> TRUE,
         sourceControl |-> TRUE,
         auditLogs |-> TRUE,
         sso |-> TRUE,
         logStreaming |-> TRUE,
         workflowHistory |-> TRUE,
         debugInEditor |-> TRUE,
         binaryDataS3 |-> TRUE,
         multipleMainInstances |-> TRUE,
         advancedExecutionFilters |-> TRUE,
         ldap |-> TRUE,
         saml |-> TRUE,
         externalSecrets |-> TRUE,
         workflowSharing |-> TRUE,
         projects |-> TRUE,
         rbac |-> TRUE],
     usage |->
        [activeWorkflowTriggers |-> [limit |-> MAX_SAFE_INTEGER],
         users |-> [limit |-> MAX_SAFE_INTEGER],
         variables |-> [limit |-> MAX_SAFE_INTEGER],
         workflowsHavingEvaluations |-> [limit |-> MAX_SAFE_INTEGER]]]

hasFeature(featureName) == TRUE

isFeatureEnabled(featureName) == TRUE

getFeatureFlag(flagName) == TRUE

\* settings.value.templates?.host
templatesHost ==
    IF "templates" \in DOMAIN settings /\ "host" \in DOMAIN settings.templates
    THEN settings.templates.host
    ELSE "undefined"

isTemplatesEndpointReachable == templatesEndpointHealthy

\* the one limit that is computed from the refs instead of being a constant
isBelowUserQuota ==
    \/ userManagement.quota = -1
    \/ userManagement.quota > Len(allUsers)

-----------------------------------------------------------------------------
(* The settings payloads the server may send (FrontendSettings) *)

\* the enterprise keys a server reports: the capability keys and two more
ServerEnterpriseKeys ==
    (DOMAIN licenseInformation.features) \cup {"workerView", "showNonProdBanner"}

EnterpriseAllFalse == [k \in ServerEnterpriseKeys |-> FALSE]

EnterpriseMixed == [sso |-> FALSE, ldap |-> TRUE, showNonProdBanner |-> TRUE]

LicenseCommunity ==
    [planName |-> "Community", consumerId |-> "unknown", environment |-> "production"]

LicenseInvalid ==
    [planName |-> "Community", consumerId |-> "consumer-1", environment |-> "staging",
     isValidLicense |-> FALSE, validConsumerId |-> "none"]

\* the fields getSettings hands to the root store and the versions store
RootStoreDefaults ==
    [urlBaseWebhook |-> "", urlBaseEditor |-> "", endpointForm |-> "",
     endpointFormTest |-> "", endpointFormWaiting |-> "", endpointWebhook |-> "",
     endpointWebhookTest |-> "", endpointWebhookWaiting |-> "", timezone |-> "",
     executionTimeout |-> 0, maxExecutionTimeout |-> 0, instanceId |-> "",
     oauthCallbackUrls |-> EmptyObject, n8nMetadata |-> EmptyObject,
     defaultLocale |-> "", binaryDataMode |-> "",
     versionNotifications |-> [enabled |-> FALSE]]

BasePayload ==
    [urlBaseWebhook |-> "http://localhost:5678/", urlBaseEditor |-> "http://localhost:5678/",
     endpointForm |-> "form", endpointFormTest |-> "form-test",
     endpointFormWaiting |-> "form-waiting", endpointWebhook |-> "webhook",
     endpointWebhookTest |-> "webhook-test", endpointWebhookWaiting |-> "webhook-waiting",
     timezone |-> "Europe/Berlin", executionTimeout |-> 3600, maxExecutionTimeout |-> 7200,
     instanceId |-> "instance-1", oauthCallbackUrls |-> [oauth2 |-> "callback"],
     defaultLocale |-> "en", binaryDataMode |-> "default",
     versionNotifications |-> [enabled |-> TRUE],
     versionCli |-> "1.100.0",
     publicApi |-> [enabled |-> TRUE, latestVersion |-> 1, path |-> "api",
                    swaggerUi |-> [enabled |-> TRUE]],
     mfa |-> [enabled |-> TRUE],
     folders |-> [enabled |-> TRUE],
     templates |-> [enabled |-> TRUE, host |-> "https://api.n8n.io/api/"],
     telemetry |-> [enabled |-> TRUE],
     communityNodesEnabled |-> TRUE,
     unverifiedCommunityNodesEnabled |-> FALSE,
     allowedModules |-> [builtIn |-> "crypto"],
     saveDataErrorExecution |-> "none",
     saveDataSuccessExecution |-> "none",
     saveExecutionProgress |-> TRUE,
     saveManualExecutions |-> TRUE]

\* the server reports every enterprise key false and the Community plan
PayloadCommunity ==
    Spread(BasePayload,
        [enterprise |-> EnterpriseAllFalse,
         license |-> LicenseCommunity,
         userManagement |-> [quota |-> 1, showSetupOnFirstLoad |-> TRUE,
                             smtpSetup |-> FALSE, authenticationMethod |-> "email"]])

\* no enterprise and no license sub-object, no versionCli, telemetry off
PayloadBare ==
    [k \in (DOMAIN BasePayload \cup {"userManagement"}) \ {"versionCli"} |->
        CASE k = "userManagement" ->
                [quota |-> -1, smtpSetup |-> TRUE, authenticationMethod |-> "ldap"]
          [] k = "telemetry" -> [enabled |-> FALSE]
          [] k = "saveDataErrorExecution" -> "all"
          [] OTHER -> BasePayload[k]]

\* a partial enterprise object and a license that reports itself invalid
PayloadMixed ==
    Spread(BasePayload,
        [enterprise |-> EnterpriseMixed,
         license |-> LicenseInvalid,
         userManagement |-> [quota |-> 5, showSetupOnFirstLoad |-> FALSE,
                             smtpSetup |-> TRUE, authenticationMethod |-> "saml"]])

Payloads == {PayloadCommunity, PayloadBare, PayloadMixed}

\* what settingsApi.getSettings may reject with
FetchErrors == {"NetworkError", "ResponseError"}

\* what testHealthEndpoint may reject with
ProbeErrors == {"ProbeError"}

-----------------------------------------------------------------------------
(* settings.store.ts: setSettings and getSettings *)

\* the enterprise keys setSettings forces
EnterprisePatch ==
    [variables |-> TRUE,
     advancedPermissions |-> TRUE,
     sourceControl |-> TRUE,
     auditLogs |-> TRUE,
     sso |-> TRUE,
     logStreaming |-> TRUE,
     workflowHistory |-> TRUE,
     debugInEditor |-> TRUE,
     binaryDataS3 |-> TRUE,
     multipleMainInstances |-> TRUE,
     workerView |-> TRUE]

\* the license fields setSettings forces
LicensePatch ==
    [planName |-> "Enterprise",
     isValidLicense |-> TRUE,
     validConsumerId |-> "enterprise-consumer"]

\* settings.value.enterprise = { ...(settings.value.enterprise || {}), ... }
PatchEnterprise(s) == Spread(OrEmpty(s, "enterprise"), EnterprisePatch)

\* the license patch, were the spread written after the forced fields
PatchLicensePayloadWins(s) == Spread(LicensePatch, OrEmpty(s, "license"))

\* settings.value.license = { ...(settings.value.license || {}), ... }
PatchLicense(s) == Spread(OrEmpty(s, "license"), LicensePatch)

\* The refs after setSettings(newSettings). userManagement.value is the payload's
\* own userManagement object, so the write to showSetupOnFirstLoad shows in
\* settings.value.userManagement too.
setSettings(newSettings) ==
    LET um == Spread(newSettings.userManagement,
                     [showSetupOnFirstLoad |->
                        ToBoolean(newSettings.userManagement, "showSetupOnFirstLoad")])
        s1 == Spread(newSettings, [userManagement |-> um])
        s2 == Spread(s1, [enterprise |-> PatchEnterprise(s1)])
        s3 == Spread(s2, [license |-> PatchLicense(s2)])
    IN  [settings |-> s3,
         userManagement |-> um,
         api |-> s1.publicApi,
         mfa |-> Spread(mfa, [enabled |-> s1.mfa.enabled]),
         folders |-> Spread(folders, [enabled |-> s1.folders.enabled]),
         versionCli |-> IF "versionCli" \in DOMAIN s3 THEN s3.versionCli ELSE versionCli]

\* The state after the continuation of getSettings, once the fetch has resolved
\* with fetchedSettings.
getSettings(fetchedSettings) ==
    LET r == setSettings(fetchedSettings)
    IN  [settings |->
            Spread(r.settings,
                [communityNodesEnabled |-> fetchedSettings.communityNodesEnabled,
                 unverifiedCommunityNodesEnabled |->
                    fetchedSettings.unverifiedCommunityNodesEnabled,
                 allowedModules |-> fetchedSettings.allowedModules]),
         userManagement |-> r.userManagement,
         api |-> r.api,
         mfa |-> r.mfa,
         folders |-> r.folders,
         versionCli |-> r.versionCli,
         saveDataErrorExecution |-> fetchedSettings.saveDataErrorExecution,
         saveDataSuccessExecution |-> fetchedSettings.saveDataSuccessExecution,
         saveDataProgressExecution |-> fetchedSettings.saveExecutionProgress,
         saveManualExecutions |-> fetchedSettings.saveManualExecutions,
         rootStore |->
            [k \in DOMAIN RootStoreDefaults |->
                IF k = "n8nMetadata"
                THEN OrEmpty(fetchedSettings, "n8nMetadata")
                ELSE fetchedSettings[k]],
         sessionsStarted |->
            IF "telemetry" \in DOMAIN fetchedSettings /\ fetchedSettings.telemetry.enabled
            THEN sessionsStarted + 1
            ELSE sessionsStarted]

\* the store's refs other than settings and initialized
frame == <<userManagement, templatesEndpointHealthy, api, mfa, folders,
           saveDataErrorExecution, saveDataSuccessExecution, saveManualExecutions,
           saveDataProgressExecution>>

\* the collaborators' state
effects == <<fetches, toasts, sessionsStarted, versionCli, rootStore>>

\* a record of an async call on the store
Call(kind, pc) ==
    [kind |-> kind, pc |-> pc, rejectedWith |-> "none", raised |-> "none", pre |-> FALSE]

\* setSettings(newSettings), called by a consumer of the store
SetSettingsCall(newSettings) ==
    LET r == setSettings(newSettings)
    IN  /\ settings' = r.settings
        /\ userManagement' = r.userManagement
        /\ api' = r.api
        /\ mfa' = r.mfa
        /\ folders' = r.folders
        /\ versionCli' = r.versionCli
        /\ UNCHANGED <<serviceVars, allUsers, initialized, templatesEndpointHealthy, saveDataErrorExecution,
                       saveDataSuccessExecution, saveManualExecutions,
                       saveDataProgressExecution, calls, fetches, toasts,
                       sessionsStarted, rootStore>>

\* getSettings(), called directly: runs to its await of settingsApi.getSettings
GetSettingsCall ==
    /\ Len(calls) < MaxCalls
    /\ calls' = Append(calls, Call("getSettings", "awaitFetch"))
    /\ fetches' = fetches + 1
    /\ UNCHANGED <<serviceVars, allUsers, initialized, settings, frame, toasts, sessionsStarted, versionCli,
                   rootStore>>

\* initialize, were the initialized guard missing
InitializeCallUnguarded ==
    /\ Len(calls) < MaxCalls
    /\ calls' = Append(calls, Call("initialize", "awaitFetch"))
    /\ fetches' = fetches + 1
    /\ UNCHANGED <<serviceVars, allUsers, initialized, settings, frame, toasts, sessionsStarted,
                   versionCli, rootStore>>

\* initialize(): returns at once when initialized, else runs getSettings to its await
InitializeCall ==
    /\ Len(calls) < MaxCalls
    /\ IF initialized
       THEN /\ calls' = Append(calls, Call("initialize", "returned"))
            /\ UNCHANGED fetches
       ELSE /\ calls' = Append(calls, Call("initialize", "awaitFetch"))
            /\ fetches' = fetches + 1
    /\ UNCHANGED <<serviceVars, allUsers, initialized, settings, frame, toasts, sessionsStarted, versionCli,
                   rootStore>>

\* the fetch of call i resolves with fetchedSettings: the rest of getSettings runs
\* and, inside initialize, initialized is set
FetchResolves(i, fetchedSettings) ==
    LET r == getSettings(fetchedSettings)
    IN  /\ calls[i].pc = "awaitFetch"
        /\ settings' = r.settings
        /\ userManagement' = r.userManagement
        /\ api' = r.api
        /\ mfa' = r.mfa
        /\ folders' = r.folders
        /\ versionCli' = r.versionCli
        /\ saveDataErrorExecution' = r.saveDataErrorExecution
        /\ saveDataSuccessExecution' = r.saveDataSuccessExecution
        /\ saveDataProgressExecution' = r.saveDataProgressExecution
        /\ saveManualExecutions' = r.saveManualExecutions
        /\ rootStore' = r.rootStore
        /\ sessionsStarted' = r.sessionsStarted
        /\ initialized' = IF calls[i].kind = "initialize" THEN TRUE ELSE initialized
        /\ calls' = [calls EXCEPT ![i].pc = "resolved"]
        /\ UNCHANGED <<serviceVars, allUsers, templatesEndpointHealthy, fetches, toasts>>

\* the failed fetch, were the error replaced instead of thrown again
FetchRejectsWrapped(i, e) ==
    /\ calls[i].pc = "awaitFetch"
    /\ toasts' = IF calls[i].kind = "initialize"
                 THEN Append(toasts, [title |-> "startupError",
                                      message |-> "startupError.message",
                                      type |-> "error", duration |-> 0])
                 ELSE toasts
    /\ calls' = [calls EXCEPT ![i].pc = "rejected", ![i].rejectedWith = e,
                              ![i].raised = "StartupError"]
    /\ UNCHANGED <<serviceVars, allUsers, initialized, settings, frame, fetches, sessionsStarted,
                   versionCli, rootStore>>

\* the fetch of call i rejects with e: getSettings rejects with e; initialize
\* shows the startup-error toast and throws e again
FetchRejects(i, e) ==
    /\ calls[i].pc = "awaitFetch"
    /\ toasts' = IF calls[i].kind = "initialize"
                 THEN Append(toasts, [title |-> "startupError",
                                      message |-> "startupError.message",
                                      type |-> "error", duration |-> 0])
                 ELSE toasts
    /\ calls' = [calls EXCEPT ![i].pc = "rejected", ![i].rejectedWith = e,
                              ![i].raised = e]
    /\ UNCHANGED <<serviceVars, allUsers, initialized, settings, frame, fetches, sessionsStarted, versionCli,
                   rootStore>>

\* disableTemplates()
DisableTemplates ==
    /\ settings' = Spread(settings,
                        [templates |-> Spread(OrEmpty(settings, "templates"),
                                              [enabled |-> FALSE])])
    /\ UNCHANGED <<serviceVars, allUsers, initialized, frame, calls, effects>>

\* reset(), were it to put the whole store back to its initial state
ResetAll ==
    /\ settings' = EmptyObject
    /\ initialized' = FALSE
    /\ UNCHANGED <<serviceVars, allUsers, frame, calls, effects>>

\* reset()
Reset ==
    /\ settings' = EmptyObject
    /\ UNCHANGED <<serviceVars, allUsers, initialized, frame, calls, effects>>

\* testTemplatesEndpoint(): starts the probe and the 2000 ms timer and awaits the race
TestTemplatesEndpointCall ==
    /\ Len(calls) < MaxCalls
    /\ calls' = Append(calls,
                    [Call("testTemplatesEndpoint", "awaitRace")
                        EXCEPT !.pre = templatesEndpointHealthy])
    /\ UNCHANGED <<serviceVars, allUsers, initialized, settings, frame, effects>>

\* testHealthEndpoint resolves before the timer: the race resolves
ProbeResolves(i) ==
    /\ calls[i].pc = "awaitRace"
    /\ templatesEndpointHealthy' = TRUE
    /\ calls' = [calls EXCEPT ![i].pc = "resolved"]
    /\ UNCHANGED <<serviceVars, allUsers, initialized, settings, userManagement, api, mfa, folders,
                   saveDataErrorExecution, saveDataSuccessExecution,
                   saveManualExecutions, saveDataProgressExecution, effects>>

\* the race, were its rejection caught inside testTemplatesEndpoint
RaceSwallowed(c, e) == [c EXCEPT !.pc = "resolved", !.rejectedWith = e]

\* what the await of the race throws, and with it the promise of
\* testTemplatesEndpoint, which has no catch
RaceRejected(c, e) == [c EXCEPT !.pc = "rejected", !.rejectedWith = e, !.raised = e]

\* testHealthEndpoint rejects with e before the timer
ProbeRejects(i, e) ==
    /\ calls[i].pc = "awaitRace"
    /\ calls' = [calls EXCEPT ![i] = RaceRejected(calls[i], e)]
    /\ UNCHANGED <<serviceVars, allUsers, initialized, settings, frame, effects>>

\* the 2000 ms timer fires while the probe is pending: reject() with no reason
TimerFires(i) ==
    /\ calls[i].pc = "awaitRace"
    /\ calls' = [calls EXCEPT ![i] = RaceRejected(calls[i], "undefined")]
    /\ UNCHANGED <<serviceVars, allUsers, initialized, settings, frame, effects>>

NextStore ==
    \/ \E p \in Payloads : SetSettingsCall(p)
    \/ GetSettingsCall
    \/ InitializeCall
    \/ \E i \in DOMAIN calls : \E p \in Payloads : FetchResolves(i, p)
    \/ \E i \in DOMAIN calls : \E e \in FetchErrors : FetchRejects(i, e)
    \/ DisableTemplates
    \/ Reset
    \/ TestTemplatesEndpointCall
    \/ \E i \in DOMAIN calls : ProbeResolves(i)
    \/ \E i \in DOMAIN calls : \E e \in ProbeErrors : ProbeRejects(i, e)
    \/ \E i \in DOMAIN calls : TimerFires(i)

-----------------------------------------------------------------------------
(* LicenseService: the shared License and LicenseState objects *)

\* the feature names asked of isFeatureEnabled, one of them unknown to the license
LicenseFeatures == {"feat:sso", "feat:ldap", "feat:unknown"}

\* A License object as its constructor leaves it: each method is the value it
\* returns. getConsumerId is a method the service never assigns.
CommunityLicense ==
    [getTriggerLimit |-> Limit(5),
     getPlanName |-> "Community",
     isFeatureEnabled |-> [f \in LicenseFeatures |-> FALSE],
     hasValidLicense |-> FALSE,
     isVariablesEnabled |-> FALSE,
     getVariablesLimit |-> Limit(0),
     isAdvancedPermissionsEnabled |-> FALSE,
     isSourceControlEnabled |-> FALSE,
     isAuditLogsEnabled |-> FALSE,
     isSsoEnabled |-> FALSE,
     isLogStreamingEnabled |-> FALSE,
     isApiDisabled |-> TRUE,
     isWorkflowHistoryEnabled |-> FALSE,
     isDebugInEditorEnabled |-> FALSE,
     isBinaryDataS3Enabled |-> FALSE,
     isMultipleMainInstancesEnabled |-> FALSE,
     getMainPlan |-> [productId |-> "community", productName |-> "Community",
                      productMetadata |-> EmptyObject],
     getUsersLimit |-> Limit(1),
     isWithinUsersLimit |-> FALSE,
     getWorkflowLimit |-> Limit(5),
     isWithinWorkflowLimit |-> FALSE,
     getManagementJwt |-> "",
     getConsumerId |-> "unknown"]

\* a paid plan with some features and finite limits
ProLicense ==
    [CommunityLicense EXCEPT
        !.getPlanName = "Pro",
        !.isFeatureEnabled = [f \in LicenseFeatures |-> f = "feat:sso"],
        !.hasValidLicense = TRUE,
        !.isVariablesEnabled = TRUE,
        !.getVariablesLimit = Limit(100),
        !.isSsoEnabled = TRUE,
        !.isApiDisabled = FALSE,
        !.getUsersLimit = Limit(10),
        !.isWithinUsersLimit = TRUE,
        !.isWithinWorkflowLimit = TRUE,
        !.getManagementJwt = "jwt-of-consumer-1",
        !.getConsumerId = "consumer-1"]

OriginalLicenses == {CommunityLicense, ProLicense}

OriginalLicenseState ==
    [getMaxWorkflowsWithEvaluations |-> Limit(1),
     isFeatureEnabled |-> [f \in LicenseFeatures |-> FALSE],
     isLicensed |-> FALSE]

\* the closures patchLicenseForEnterprise assigns to this.license
LicenseOverride ==
    [getTriggerLimit |-> MAX_SAFE_INTEGER,
     getPlanName |-> "Enterprise",
     isFeatureEnabled |-> [f \in LicenseFeatures |-> TRUE],
     hasValidLicense |-> TRUE,
     isVariablesEnabled |-> TRUE,
     getVariablesLimit |-> MAX_SAFE_INTEGER,
     isAdvancedPermissionsEnabled |-> TRUE,
     isSourceControlEnabled |-> TRUE,
     isAuditLogsEnabled |-> TRUE,
     isSsoEnabled |-> TRUE,
     isLogStreamingEnabled |-> TRUE,
     isApiDisabled |-> FALSE,
     isWorkflowHistoryEnabled |-> TRUE,
     isDebugInEditorEnabled |-> TRUE,
     isBinaryDataS3Enabled |-> TRUE,
     isMultipleMainInstancesEnabled |-> TRUE,
     getMainPlan |-> [productId |-> "enterprise-unlimited",
                      productName |-> "Enterprise Unlimited",
                      productMetadata |-> EmptyObject],
     getUsersLimit |-> MAX_SAFE_INTEGER,
     isWithinUsersLimit |-> TRUE,
     getWorkflowLimit |-> MAX_SAFE_INTEGER,
     isWithinWorkflowLimit |-> TRUE,
     getManagementJwt |-> "enterprise-bypass-token"]

\* the closures patchLicenseForEnterprise assigns to this.licenseState
LicenseStateOverride ==
    [getMaxWorkflowsWithEvaluations |-> MAX_SAFE_INTEGER,
     isFeatureEnabled |-> [f \in LicenseFeatures |-> TRUE]]

\* the patch, were a second installation to undo the first
patchLicenseToggle(l) ==
    IF l.getPlanName = "Enterprise" THEN CommunityLicense ELSE Spread(l, LicenseOverride)

\* this.license after patchLicenseForEnterprise
patchLicenseForEnterprise(l) == Spread(l, LicenseOverride)

\* this.licenseState after patchLicenseForEnterprise
patchLicenseState(ls) == Spread(ls, LicenseStateOverride)

-----------------------------------------------------------------------------
(* LicenseService: the operations *)

\* entries of the trace
LogEntry(call, message, fields) ==
    [type |-> "log", call |-> call, name |-> message, fields |-> fields]

EventEntry(call, eventName, payload) ==
    [type |-> "event", call |-> call, name |-> eventName, fields |-> payload]

QueryEntry(call, query) ==
    [type |-> "query", call |-> call, name |-> query, fields |-> EmptyObject]

ReturnEntry(call, method, value) ==
    [type |-> "return", call |-> call, name |-> method, fields |-> value]

ThrowEntry(call, method, error) ==
    [type |-> "throw", call |-> call, name |-> method, fields |-> [error |-> error]]

\* the inputs of the calls
ActivationKeys == {"", "not-a-key", "valid-activation-key"}

Registrations ==
    {[userId |-> "user-1", email |-> "owner@example.com", instanceId |-> "instance-1",
      instanceUrl |-> "http://localhost:5678", licenseType |-> "community-registered"],
     [userId |-> "", email |-> "", instanceId |-> "", instanceUrl |-> "",
      licenseType |-> ""]}

Users == {[email |-> "owner@example.com", firstName |-> "Ada", lastName |-> "Lovelace"]}

\* what the workflow repository's count queries may reject with
RepositoryErrors == {"QueryFailedError", "ConnectionError"}

\* no getLicenseData call yet
\* (returned: the counts the repository has answered this call with, in order)
NoLicenseData ==
    [pc |-> "idle", call |-> 0, triggerCount |-> 0, returned |-> <<>>,
     result |-> EmptyObject, rejectedWith |-> "none", raised |-> "none"]

\* new LicenseService(...): the constructor runs patchLicenseForEnterprise
Construct ==
    /\ instances < MaxInstances
    /\ instances' = instances + 1
    /\ license' = patchLicenseForEnterprise(license)
    /\ licenseState' = patchLicenseState(licenseState)
    /\ trace' = Append(trace,
                    LogEntry(0, "Enterprise features enabled via license override",
                             EmptyObject))
    /\ UNCHANGED <<storeVars, serviceCalls, licenseData>>

\* a call on a constructed service, numbered in call order
BeginCall(method, input) ==
    /\ instances > 0
    /\ Len(serviceCalls) < MaxServiceCalls
    /\ serviceCalls' = Append(serviceCalls, [method |-> method, input |-> input])

\* the usage block, were one limit read from the license state as first built
LicenseDataUsageFromLicenseState(triggerCount, workflowsWithEvaluationsCount) ==
    [activeWorkflowTriggers |->
        [value |-> triggerCount, limit |-> MAX_SAFE_INTEGER,
         warningThreshold |-> <<8, 10>>],
     workflowsHavingEvaluations |->
        [value |-> workflowsWithEvaluationsCount,
         limit |-> OriginalLicenseState.getMaxWorkflowsWithEvaluations],
     users |->
        [value |-> 1, limit |-> MAX_SAFE_INTEGER, warningThreshold |-> <<8, 10>>],
     variables |->
        [value |-> 0, limit |-> MAX_SAFE_INTEGER, warningThreshold |-> <<8, 10>>]]

\* the usage block of the object getLicenseData returns; warningThreshold 0.8 is
\* kept as <<8, 10>>
LicenseDataUsage(triggerCount, workflowsWithEvaluationsCount) ==
    [activeWorkflowTriggers |->
        [value |-> triggerCount, limit |-> MAX_SAFE_INTEGER,
         warningThreshold |-> <<8, 10>>],
     workflowsHavingEvaluations |->
        [value |-> workflowsWithEvaluationsCount, limit |-> MAX_SAFE_INTEGER],
     users |->
        [value |-> 1, limit |-> MAX_SAFE_INTEGER, warningThreshold |-> <<8, 10>>],
     variables |->
        [value |-> 0, limit |-> MAX_SAFE_INTEGER, warningThreshold |-> <<8, 10>>]]

\* the object getLicenseData returns
LicenseData(triggerCount, workflowsWithEvaluationsCount) ==
    [usage |-> LicenseDataUsage(triggerCount, workflowsWithEvaluationsCount),
     license |->
        [planId |-> "enterprise-unlimited",
         planName |-> "Enterprise",
         isValidLicense |-> TRUE,
         validConsumerId |-> "enterprise-consumer"],
     features |->
        [variables |-> TRUE,
         advancedPermissions |-> TRUE,
         sourceControl |-> TRUE,
         auditLogs |-> TRUE,
         sso |-> TRUE,
         logStreaming |-> TRUE,
         workflowHistory |-> TRUE,
         debugInEditor |-> TRUE,
         binaryDataS3 |-> TRUE,
         multipleMainInstances |-> TRUE]]

\* getLicenseData(): runs to its await of getActiveTriggerCount
GetLicenseDataCall ==
    /\ BeginCall("getLicenseData", EmptyObject)
    /\ licenseData.pc \in {"idle", "resolved", "rejected"}
    /\ licenseData' = [NoLicenseData EXCEPT !.pc = "awaitTriggerCount",
                                            !.call = Len(serviceCalls')]
    /\ trace' = Append(trace, QueryEntry(Len(serviceCalls'), "getActiveTriggerCount"))
    /\ UNCHANGED <<storeVars, license, licenseState, instances>>

\* getActiveTriggerCount resolves with n: getLicenseData goes on to its second await
TriggerCountResolves(n) ==
    /\ licenseData.pc = "awaitTriggerCount"
    /\ licenseData' = [licenseData EXCEPT !.pc = "awaitEvaluationCount",
                                          !.triggerCount = n,
                                          !.returned = Append(@, n)]
    /\ trace' = Append(trace,
                    QueryEntry(licenseData.call, "getWorkflowsWithEvaluationCount"))
    /\ UNCHANGED <<storeVars, license, licenseState, instances, serviceCalls>>

\* the rejected await, were the failure translated
CountRejectedWrapped(d, e) ==
    [d EXCEPT !.pc = "rejected", !.rejectedWith = e, !.raised = "InternalServerError"]

\* what a rejected await leaves of getLicenseData, which has no catch
CountRejected(d, e) == [d EXCEPT !.pc = "rejected", !.rejectedWith = e, !.raised = e]

\* getActiveTriggerCount rejects with e
TriggerCountRejects(e) ==
    /\ licenseData.pc = "awaitTriggerCount"
    /\ licenseData' = CountRejected(licenseData, e)
    /\ trace' = Append(trace, ThrowEntry(licenseData.call, "getLicenseData",
                                         licenseData'.raised))
    /\ UNCHANGED <<storeVars, license, licenseState, instances, serviceCalls>>

\* getWorkflowsWithEvaluationCount resolves with m: getLicenseData returns
EvaluationCountResolves(m) ==
    /\ licenseData.pc = "awaitEvaluationCount"
    /\ licenseData' = [licenseData EXCEPT
                          !.pc = "resolved",
                          !.returned = Append(@, m),
                          !.result = LicenseData(licenseData.triggerCount, m)]
    /\ trace' = Append(trace, ReturnEntry(licenseData.call, "getLicenseData",
                                          licenseData'.result))
    /\ UNCHANGED <<storeVars, license, licenseState, instances, serviceCalls>>

\* getWorkflowsWithEvaluationCount rejects with e
EvaluationCountRejects(e) ==
    /\ licenseData.pc = "awaitEvaluationCount"
    /\ licenseData' = CountRejected(licenseData, e)
    /\ trace' = Append(trace, ThrowEntry(licenseData.call, "getLicenseData",
                                         licenseData'.raised))
    /\ UNCHANGED <<storeVars, license, licenseState, instances, serviceCalls>>

\* what requestEnterpriseTrial(user) does: one log entry, no request
requestEnterpriseTrial(call, user) ==
    <<LogEntry(call, "Enterprise trial requested (bypassed)",
               [email |-> user.email, firstName |-> user.firstName,
                lastName |-> user.lastName]),
      ReturnEntry(call, "requestEnterpriseTrial", EmptyObject)>>

\* what registerCommunityEdition(r) does, in order
registerCommunityEdition(call, r) ==
    <<LogEntry(call, "Community edition registration (bypassed)",
               [userId |-> r.userId, email |-> r.email, instanceId |-> r.instanceId,
                licenseType |-> r.licenseType]),
      EventEntry(call, "license-community-plus-registered",
                 [userId |-> r.userId, email |-> r.email,
                  licenseKey |-> "enterprise-bypass-key"]),
      ReturnEntry(call, "registerCommunityEdition",
                  [title |-> "Enterprise Features Enabled",
                   text |-> "All enterprise features have been enabled for this instance."])>>

\* activateLicense, were the key still validated as in the code commented out
activateLicenseValidated(call, activationKey) ==
    IF activationKey = "valid-activation-key"
    THEN <<LogEntry(call, "License activation bypassed",
                    [activationKey |-> "***hidden***"]),
           EventEntry(call, "license-activated",
                      [activationKey |-> "enterprise-bypass-key",
                       planName |-> "Enterprise"]),
           ReturnEntry(call, "activateLicense", EmptyObject)>>
    ELSE <<LogEntry(call, "License activation bypassed",
                    [activationKey |-> "***hidden***"]),
           ThrowEntry(call, "activateLicense", "BadRequestError")>>

\* activateLicense, were the key still handed to license.activate as in the code
\* commented out
activateLicenseForwarded(call, activationKey) ==
    <<LogEntry(call, "License activation bypassed", [activationKey |-> "***hidden***"]),
      EventEntry(call, "license-activated",
                 [activationKey |-> "enterprise-bypass-key", planName |-> "Enterprise"]),
      [type |-> "license", call |-> call, name |-> "activate",
       fields |-> [activationKey |-> activationKey]],
      ReturnEntry(call, "activateLicense", EmptyObject)>>

\* what activateLicense(activationKey) does, in order
activateLicense(call, activationKey) ==
    <<LogEntry(call, "License activation bypassed", [activationKey |-> "***hidden***"]),
      EventEntry(call, "license-activated",
                 [activationKey |-> "enterprise-bypass-key", planName |-> "Enterprise"]),
      ReturnEntry(call, "activateLicense", EmptyObject)>>

\* what renewLicense() does, in order
renewLicense(call) ==
    <<LogEntry(call, "License renewal bypassed", EmptyObject),
      EventEntry(call, "license-renewal-attempted", [success |-> TRUE]),
      ReturnEntry(call, "renewLicense", EmptyObject)>>

RequestEnterpriseTrialCall(user) ==
    /\ BeginCall("requestEnterpriseTrial", user)
    /\ trace' = trace \o requestEnterpriseTrial(Len(serviceCalls'), user)
    /\ UNCHANGED <<storeVars, license, licenseState, instances, licenseData>>

RegisterCommunityEditionCall(r) ==
    /\ BeginCall("registerCommunityEdition", r)
    /\ trace' = trace \o registerCommunityEdition(Len(serviceCalls'), r)
    /\ UNCHANGED <<storeVars, license, licenseState, instances, licenseData>>

ActivateLicenseCall(activationKey) ==
    /\ BeginCall("activateLicense", [activationKey |-> activationKey])
    /\ trace' = trace \o activateLicense(Len(serviceCalls'), activationKey)
    /\ UNCHANGED <<storeVars, license, licenseState, instances, licenseData>>

RenewLicenseCall ==
    /\ BeginCall("renewLicense", EmptyObject)
    /\ trace' = trace \o renewLicense(Len(serviceCalls'))
    /\ UNCHANGED <<storeVars, license, licenseState, instances, licenseData>>

NextService ==
    \/ Construct
    \/ GetLicenseDataCall
    \/ \E n \in 0..MaxCount : TriggerCountResolves(n)
    \/ \E e \in RepositoryErrors : TriggerCountRejects(e)
    \/ \E m \in 0..MaxCount : EvaluationCountResolves(m)
    \/ \E e \in RepositoryErrors : EvaluationCountRejects(e)
    \/ \E u \in Users : RequestEnterpriseTrialCall(u)
    \/ \E r \in Registrations : RegisterCommunityEditionCall(r)
    \/ \E k \in ActivationKeys : ActivateLicenseCall(k)
    \/ RenewLicenseCall

-----------------------------------------------------------------------------
(* The specifications *)

\* the refs of a fresh store and the collaborators of a fresh service
InitRefs ==
    /\ initialized = FALSE
    /\ settings = EmptyObject
    /\ userManagement = [quota |-> -1, showSetupOnFirstLoad |-> FALSE,
                         smtpSetup |-> FALSE, authenticationMethod |-> "email"]
    /\ templatesEndpointHealthy = FALSE
    /\ api = [enabled |-> FALSE, latestVersion |-> 0, path |-> "/",
              swaggerUi |-> [enabled |-> FALSE]]
    /\ mfa = [enabled |-> FALSE]
    /\ folders = [enabled |-> FALSE]
    /\ saveDataErrorExecution = "all"
    /\ saveDataSuccessExecution = "all"
    /\ saveManualExecutions = FALSE
    /\ saveDataProgressExecution = FALSE
    /\ calls = <<>>
    /\ fetches = 0
    /\ toasts = <<>>
    /\ sessionsStarted = 0
    /\ versionCli = "0.0.0"
    /\ rootStore = RootStoreDefaults
    /\ license \in OriginalLicenses
    /\ licenseState = OriginalLicenseState
    /\ instances = 0
    /\ trace = <<>>
    /\ serviceCalls = <<>>
    /\ licenseData = NoLicenseData

\* the lists useUsersStore().allUsers can hold
UserLists == {[i \in 1..n |-> "user"] : n \in 0..MaxUsers}

Init == InitRefs /\ allUsers = <<>>

\* the settings store alone, beside a backend that is never constructed
InitStore == Init /\ license = CommunityLicense

\* the settings store beside a users store that holds any list of users
InitUsers == InitRefs /\ license = CommunityLicense /\ allUsers \in UserLists

SpecStore == InitStore /\ [][NextStore]_vars

SpecUsers == InitUsers /\ [][NextStore]_vars

\* the LicenseService alone
SpecService == Init /\ [][NextService]_vars

-----------------------------------------------------------------------------
(* The claims *)

\* the names asked of the generic lookups: known keys, an unknown one, the empty one
FeatureNames ==
    (DOMAIN licenseInformation.features) \cup {"workerView", "no-such-feature", ""}

\* C1: once the store is initialized, every feature-enablement query returns
\* true: each named getter, every entry of licenseInformation.features, and
\* hasFeature(x), isFeatureEnabled(x), getFeatureFlag(x),
\* isEnterpriseFeatureEnabled(x) for every name x, whatever the server reported
\* and whatever getSettings, setSettings, disableTemplates and reset did since.
C1_EveryFeatureQueryTrue ==
    initialized =>
        /\ isVariablesEnabled /\ canCreateVariables /\ isAdvancedPermissionsEnabled
        /\ isSourceControlEnabled /\ isAuditLogsEnabled /\ isSsoEnabled
        /\ isLogStreamingEnabled /\ isWorkflowHistoryEnabled /\ isDebugInEditorEnabled
        /\ isBinaryDataS3Enabled /\ isMultipleMainInstancesEnabled
        /\ isAdvancedExecutionFiltersEnabled /\ isLdapEnabled /\ isSamlEnabled
        /\ isExternalSecretsEnabled /\ isWorkflowSharingEnabled /\ isProjectsEnabled
        /\ isRbacEnabled /\ isWorkerViewAvailable
        /\ \A k \in DOMAIN licenseInformation.features : licenseInformation.features[k]
        /\ \A x \in FeatureNames :
              /\ hasFeature(x)
              /\ isFeatureEnabled(x)
              /\ getFeatureFlag(x)
              /\ isEnterpriseFeatureEnabled(x)

\* the store is initialized and the payload it holds reports ldap, which
\* setSettings does not force, explicitly false
C1_Witness ==
    /\ initialized
    /\ "enterprise" \in DOMAIN settings
    /\ "ldap" \in DOMAIN settings.enterprise
    /\ settings.enterprise.ldap = FALSE

\* the four numeric limit fields
LimitFields == {"activeWorkflowTriggers", "users", "variables", "workflowsHavingEvaluations"}

\* C2: every numeric limit field (active workflow triggers, users, variables,
\* workflows having evaluations) of the object getLicenseData returns and of
\* licenseInformation.usage is Number.MAX_SAFE_INTEGER, whatever the workflow
\* repository counted and whatever the original license reported.
C2_LimitsAreMaxSafeInteger ==
    /\ DOMAIN licenseInformation.usage = LimitFields
    /\ \A f \in LimitFields : licenseInformation.usage[f].limit = MAX_SAFE_INTEGER
    /\ \A i \in DOMAIN trace :
          (trace[i].type = "return" /\ trace[i].name = "getLicenseData") =>
              /\ DOMAIN trace[i].fields.usage = LimitFields
              /\ \A f \in LimitFields :
                    trace[i].fields.usage[f].limit = MAX_SAFE_INTEGER

\* getLicenseData has returned with a non-zero trigger count
C2_Witness ==
    /\ licenseData.pc = "resolved"
    /\ licenseData.result.usage.activeWorkflowTriggers.value = MaxCount
    /\ licenseData.result.usage.workflowsHavingEvaluations.value = 0

\* the keys the two patches of setSettings name
PatchedEnterpriseKeys ==
    {"variables", "advancedPermissions", "sourceControl", "auditLogs", "sso",
     "logStreaming", "workflowHistory", "debugInEditor", "binaryDataS3",
     "multipleMainInstances", "workerView"}

PatchedLicenseKeys == {"planName", "isValidLicense", "validConsumerId"}

\* s is what the claim C3 says of the settings after ingesting payload p
IngestedForced(s, p) ==
    /\ "license" \in DOMAIN s /\ "enterprise" \in DOMAIN s
    /\ s.license.planName = "Enterprise"
    /\ s.license.isValidLicense = TRUE
    /\ s.license.validConsumerId = "enterprise-consumer"
    /\ s.enterprise.sso = TRUE
    /\ \A k \in (DOMAIN OrEmpty(p, "license")) \ PatchedLicenseKeys :
          k \in DOMAIN s.license /\ s.license[k] = p.license[k]
    /\ \A k \in (DOMAIN OrEmpty(p, "enterprise")) \ PatchedEnterpriseKeys :
          k \in DOMAIN s.enterprise /\ s.enterprise[k] = p.enterprise[k]

\* a step that ingests payload p: setSettings(p), called directly or by getSettings
Ingests(p) ==
    \/ SetSettingsCall(p)
    \/ \E i \in DOMAIN calls : FetchResolves(i, p)

\* C3: after setSettings has ingested any payload, settings.license has planName
\* "Enterprise", isValidLicense true and validConsumerId "enterprise-consumer",
\* settings.enterprise.sso is true, and every key of the two sub-objects that the
\* patch does not name keeps the value the payload supplied.
C3_IngestionForcesLicense ==
    [][\A p \in Payloads : Ingests(p) => IngestedForced(settings', p)]_vars

\* the payload with enterprise.sso = false and planName "Community" was ingested:
\* the plan reads Enterprise, the keys the patch does not name are the server's
C3_Witness ==
    /\ "license" \in DOMAIN settings /\ "enterprise" \in DOMAIN settings
    /\ settings.license.planName = "Enterprise"
    /\ "consumerId" \in DOMAIN settings.license
    /\ settings.license.consumerId = "unknown"
    /\ settings.enterprise.sso = TRUE
    /\ "showNonProdBanner" \in DOMAIN settings.enterprise
    /\ settings.enterprise.showNonProdBanner = FALSE

\* the lifecycle event of each lifecycle operation
LifecycleEvent ==
    [activateLicense |-> "license-activated",
     renewLicense |-> "license-renewal-attempted",
     registerCommunityEdition |-> "license-community-plus-registered"]

\* the trace entries of call c, in order
EntriesOf(c) == SelectSeq(trace, LAMBDA e : e.call = c)

\* call c has logged, then emitted its one lifecycle event, then returned
LifecycleDone(c) ==
    LET es == EntriesOf(c)
        m == serviceCalls[c].method
    IN  /\ Len(es) = 3
        /\ es[1].type = "log"
        /\ es[2].type = "event" /\ es[2].name = LifecycleEvent[m]
        /\ es[3].type = "return" /\ es[3].name = m

\* event entry e carries a success indicator
HasSuccessIndicator(e) == "success" \in DOMAIN e.fields /\ e.fields.success = TRUE

TimedOut(c) == c.kind = "testTemplatesEndpoint" /\ c.rejectedWith = "undefined"

\* the step in which the timer of call i fires while its probe is pending
TimesOut(i) == calls[i].pc = "awaitRace" /\ TimedOut(calls'[i])

C6_OverrideIdempotent ==
    instances >= 1 =>
        /\ \A f \in LicenseFeatures :
              license.isFeatureEnabled[f] /\ licenseState.isFeatureEnabled[f]
        /\ license.hasValidLicense
        /\ license.getPlanName = "Enterprise"
        /\ license.getTriggerLimit = MAX_SAFE_INTEGER
        /\ license.getUsersLimit = MAX_SAFE_INTEGER
        /\ license.getVariablesLimit = MAX_SAFE_INTEGER
        /\ license.getWorkflowLimit = MAX_SAFE_INTEGER
        /\ license.isApiDisabled = FALSE
        /\ license.getManagementJwt = "enterprise-bypass-token"
        /\ licenseState.getMaxWorkflowsWithEvaluations = MAX_SAFE_INTEGER
        /\ \E o \in OriginalLicenses : license = Spread(o, LicenseOverride)
        /\ licenseState = Spread(OriginalLicenseState, LicenseStateOverride)

\* two services were constructed over the same objects and one was called
C6_Witness ==
    /\ instances = 2
    /\ Len(serviceCalls) > 0
    /\ license.getPlanName = "Enterprise"

\* the step appends a call of initialize to calls
CallsInitialize ==
    /\ Len(calls') = Len(calls) + 1
    /\ calls'[Len(calls')].kind = "initialize"

\* C7: initialized never goes from true to false; it becomes true only in the
\* step in which the getSettings fetch of an initialize call resolves; and an
\* initialize call that starts when it is true returns without a fetch and
\* changes no state of the store.
C7_InitializedOnce ==
    [][/\ initialized => initialized'
       /\ (~initialized /\ initialized') =>
              \E i \in DOMAIN calls :
                  /\ calls[i].kind = "initialize"
                  /\ calls[i].pc = "awaitFetch"
                  /\ calls'[i].pc = "resolved"
       /\ (initialized /\ CallsInitialize) =>
              /\ calls'[Len(calls')].pc = "returned"
              /\ UNCHANGED <<initialized, settings, frame, effects>>]_vars

\* initialize was called on an initialized store and returned at once
C7_Witness ==
    /\ initialized
    /\ \E i \in DOMAIN calls :
          calls[i].kind = "initialize" /\ calls[i].pc = "returned"

\* the step in which the fetch of initialize call i fails
FailsInitialize(i) ==
    /\ calls[i].kind = "initialize"
    /\ calls[i].pc = "awaitFetch"
    /\ calls'[i].pc = "rejected"

QueriesOf(c) == SelectSeq(trace, LAMBDA e : e.call = c /\ e.type = "query")

\* what call licenseData.call of getLicenseData has done so far is what C9 allows
LicenseDataAsQueried ==
    licenseData.pc # "idle" =>
        LET es == EntriesOf(licenseData.call)
            qs == QueriesOf(licenseData.call)
        IN  /\ \A i \in DOMAIN es : es[i].type \in {"query", "return", "throw"}
            /\ Len(qs) \in {1, 2}
            /\ qs[1].name = "getActiveTriggerCount"
            /\ Len(qs) = 2 => qs[2].name = "getWorkflowsWithEvaluationCount"
            /\ licenseData.pc = "resolved" =>
                  /\ Len(licenseData.returned) = 2 /\ Len(qs) = 2
                  /\ licenseData.result.usage.activeWorkflowTriggers.value
                        = licenseData.returned[1]
                  /\ licenseData.result.usage.workflowsHavingEvaluations.value
                        = licenseData.returned[2]
                  /\ es[Len(es)].type = "return"
                  /\ es[Len(es)].fields = licenseData.result
            /\ licenseData.pc = "rejected" =>
                  /\ licenseData.rejectedWith \in RepositoryErrors
                  /\ licenseData.raised = licenseData.rejectedWith
                  /\ licenseData.result = EmptyObject
                  /\ Len(qs) = Len(licenseData.returned) + 1
                  /\ es[Len(es)].type = "throw"
                  /\ es[Len(es)].fields.error = licenseData.rejectedWith
                  /\ \A i \in DOMAIN es : es[i].type # "return"

\* C9: getLicenseData asks for the trigger count first and the evaluation count
\* second, reports exactly the two counts the repository answered as
\* usage.activeWorkflowTriggers.value and usage.workflowsHavingEvaluations.value,
\* writes nothing and emits nothing, and when a count query fails it rejects with
\* that same failure, with no retry and no result.
C9_CountsAndFailures ==
    /\ []LicenseDataAsQueried
    /\ [][licenseData' # licenseData => UNCHANGED <<license, licenseState>>]_vars

\* the trigger count was answered and the evaluation count query failed
C9_Witness ==
    /\ licenseData.pc = "rejected"
    /\ licenseData.returned = <<MaxCount>>
    /\ licenseData.rejectedWith = "ConnectionError"

\* C10 as claimed: after setSettings has ingested any payload, for every key of
\* licenseInformation.features, settings.enterprise[key] is true, even when the
\* server reported it false or left it out.
C10_RawPayloadForced ==
    [][\A p \in Payloads :
          Ingests(p) =>
              \A k \in DOMAIN licenseInformation.features :
                  /\ k \in DOMAIN settings'.enterprise
                  /\ settings'.enterprise[k] = TRUE]_vars

\* C11 as claimed: after setSettings has ingested any payload, isBelowUserQuota
\* is true whatever userManagement.quota the server reported and however many
\* users exist, a finite quota at or below the number of users included.
C11_QuotaNeverReached ==
    [][\A p \in Payloads : Ingests(p) => isBelowUserQuota']_vars

\* the initialize calls whose position is one of pcs
InitializeCallsAt(pcs) ==
    {i \in DOMAIN calls : calls[i].kind = "initialize" /\ calls[i].pc \in pcs}

\* C12 as claimed: however initialize calls interleave, a call that starts while
\* an earlier call's fetch is pending or has been ingested issues no second
\* settings fetch, and at most one initialize call gets to run setSettings.
C12_OneFetchPerSession ==
    /\ [][(CallsInitialize /\ InitializeCallsAt({"awaitFetch", "resolved"}) # {})
              => fetches' = fetches]_vars
    /\ [](Cardinality(InitializeCallsAt({"resolved"})) <= 1)

\* the activateLicense calls made so far
ActivateCalls == {c \in DOMAIN serviceCalls : serviceCalls[c].method = "activateLicense"}

\* what call c logged, emitted and returned, without the number of the call
Observed(c) ==
    LET es == EntriesOf(c)
    IN  [i \in DOMAIN es |-> [type |-> es[i].type, name |-> es[i].name,
                              fields |-> es[i].fields]]

\* C13: activateLicense does not depend on its activation key: any two calls,
\* whatever their keys (valid, malformed or empty), leave the same log entry,
\* the same event payload and the same result; the key is the value of no field
\* of the log entry or of the event payload; and nothing but a log entry, an
\* event and a return is produced: license.activate is not invoked.
C13_KeyIndependent ==
    /\ \A c \in ActivateCalls, d \in ActivateCalls : Observed(c) = Observed(d)
    /\ \A c \in ActivateCalls :
          LET es == EntriesOf(c)
          IN  /\ Len(es) = 3
              /\ <<es[1].type, es[2].type, es[3].type>> = <<"log", "event", "return">>
              /\ es[3].fields = EmptyObject
              /\ \A i \in 1..2 : \A f \in DOMAIN es[i].fields :
                     es[i].fields[f] # serviceCalls[c].input.activationKey

\* two activateLicense calls were made, one with the valid key and one with the
\* empty key
C13_Witness ==
    /\ Cardinality(ActivateCalls) = 2
    /\ {serviceCalls[c].input.activationKey : c \in ActivateCalls}
           = {"", "valid-activation-key"}
    /\ \A c \in ActivateCalls : Len(EntriesOf(c)) = 3

\* the sub-objects of the payload that setSettings forces
ForcedSubObjects == {"enterprise", "license"}

\* C14 as claimed: once the store is initialized and reset has emptied the
\* payload, the payload stays empty until a step in which setSettings ingests
\* a payload, called directly or by getSettings.
C14_EmptyUntilIngestion ==
    [][(initialized /\ settings = EmptyObject) =>
           (settings' = EmptyObject \/ \E p \in Payloads : Ingests(p))]_vars

\* C14, amended: a step that empties the payload (reset) changes neither
\* initialized, templatesEndpointHealthy, userManagement, api, mfa, folders and
\* the save-data refs nor the calls and the collaborators; an initialize call on
\* an initialized store with an empty payload returns without a fetch and
\* leaves the payload empty; an empty payload changes only by ingestion or to
\* { templates: { enabled: false } } (disableTemplates); and the payload gets
\* an enterprise or license sub-object only by ingestion.
C14_ResetFrame ==
    [][/\ (settings # EmptyObject /\ settings' = EmptyObject) =>
              UNCHANGED <<initialized, frame, calls, effects>>
       /\ (initialized /\ settings = EmptyObject /\ CallsInitialize) =>
              /\ calls'[Len(calls')].pc = "returned"
              /\ fetches' = fetches
              /\ settings' = EmptyObject
       /\ (settings = EmptyObject /\ settings' # EmptyObject) =>
              \/ \E p \in Payloads : Ingests(p)
              \/ settings' = [templates |-> [enabled |-> FALSE]]
       /\ (/\ ForcedSubObjects \cap DOMAIN settings = {}
           /\ ForcedSubObjects \cap DOMAIN settings' # {}) =>
              \E p \in Payloads : Ingests(p)]_vars

\* initialize ingested a payload, reset emptied it, a further initialize call
\* returned at once, and userManagement still holds the ingested quota
C14_Witness ==
    /\ initialized
    /\ settings = EmptyObject
    /\ userManagement.quota = 5
    /\ Len(calls) = 2
    /\ <<calls[1].kind, calls[1].pc>> = <<"initialize", "resolved">>
    /\ <<calls[2].kind, calls[2].pc>> = <<"initialize", "returned">>
    /\ fetches = 1

====
